---- MODULE Spec2Model ----
(***************************************************************************)
(* Service-quote tool for construction-equipment maintenance: the two      *)
(* Streamlit scripts (streamlit_quote_tool_pro.py, called "pro" below, and *)
(* streamlit_quote_tool_pro_FIXED.py, called "fixed") and the database     *)
(* loader load_srt_database.py.                                            *)
(*                                                                         *)
(* Strings that the program inspects character by character are sequences *)
(* of one-character strings.  Python floats are IEEE-754 binary64 values   *)
(* and are computed here bit for bit (non-negative finite values only).    *)
(***************************************************************************)
EXTENDS Integers, Sequences, FiniteSets, TLC

\* ---------------------------------------------------------------------------
\* Python float: IEEE-754 binary64.
\* A float is [e |-> E, m |-> limbs]; its value is M * 2^E, where M is the
\* 53-bit significand (2^52 <= M < 2^53) whose base-2^14 digits, least
\* significant first, are limbs.  Zero has M = 0 and E = 0.
\* ---------------------------------------------------------------------------
LimbBits == 14
MantBits == 53
MantLimbs == 4

RECURSIVE Pow2(_)
Pow2(k) == IF k = 0 THEN 1 ELSE 2 * Pow2(k - 1)

RECURSIVE Pow10(_)
Pow10(k) == IF k = 0 THEN 1 ELSE 10 * Pow10(k - 1)

Base == Pow2(LimbBits)

\* digits of the number whose columns (unnormalised digits) are cols
RECURSIVE Carry(_, _)
Carry(cols, c) ==
    IF cols = <<>> THEN (IF c = 0 THEN <<>> ELSE Carry(<<c>>, 0))
    ELSE <<(cols[1] + c) % Base>> \o Carry(Tail(cols), (cols[1] + c) \div Base)

\* a function with domain 1..n as a tuple
Tuple(f) == <<>> \o f

Limb(x, i) == IF i >= 1 /\ i <= Len(x) THEN x[i] ELSE 0

BigMul(x, y) ==
    Carry(Tuple([k \in 1..(Len(x) + Len(y) - 1) |->
             LET S[i \in 0..Len(x)] ==
                   IF i = 0 THEN 0
                   ELSE S[i - 1] + (IF k + 1 - i >= 1 /\ k + 1 - i <= Len(y)
                                    THEN x[i] * y[k + 1 - i] ELSE 0)
             IN S[Len(x)]]), 0)

BigAdd(x, y) ==
    Carry(Tuple([k \in 1..(IF Len(x) > Len(y) THEN Len(x) ELSE Len(y)) |->
             Limb(x, k) + Limb(y, k)]), 0)

RECURSIVE Trim(_)
Trim(x) == IF x # <<>> /\ x[Len(x)] = 0 THEN Trim(SubSeq(x, 1, Len(x) - 1)) ELSE x

RECURSIVE IntBits(_)
IntBits(n) == IF n = 0 THEN 0 ELSE 1 + IntBits(n \div 2)

BitLen(x) == LET t == Trim(x)
             IN IF t = <<>> THEN 0 ELSE LimbBits * (Len(t) - 1) + IntBits(t[Len(t)])

\* x div 2^k
BigShr(x, k) ==
    LET w == k \div LimbBits
        s == k % LimbBits
    IN Tuple([i \in 1..(IF Len(x) > w THEN Len(x) - w ELSE 0) |->
          (x[i + w] \div Pow2(s)) + (Limb(x, i + w + 1) % Pow2(s)) * Pow2(LimbBits - s)])

\* x * 2^k
BigShl(x, k) ==
    LET w == k \div LimbBits
        s == k % LimbBits
    IN Tuple([i \in 1..(Len(x) + w + 1) |->
          IF i <= w THEN 0
          ELSE (Limb(x, i - w) % Pow2(LimbBits - s)) * Pow2(s)
               + (Limb(x, i - w - 1) \div Pow2(LimbBits - s))])

Bit(x, j) == (Limb(x, (j \div LimbBits) + 1) \div Pow2(j % LimbBits)) % 2

\* whether any of the bits 0 .. j-1 of x is set
LowBits(x, j) ==
    \/ \E i \in 1..(j \div LimbBits) : Limb(x, i) # 0
    \/ Limb(x, (j \div LimbBits) + 1) % Pow2(j % LimbBits) # 0

\* x / 2^k rounded to the nearest integer, ties to even
ShrRound(x, k) ==
    IF k = 0 THEN x
    ELSE LET q == BigShr(x, k)
             up == Bit(x, k - 1) = 1 /\ (LowBits(x, k - 1) \/ Bit(q, 0) = 1)
         IN IF up THEN BigAdd(q, <<1>>) ELSE q

\* the four digits of a significand
Mant(x) == <<Limb(x, 1), Limb(x, 2), Limb(x, 3), Limb(x, 4)>>

Zero == [e |-> 0, m |-> Mant(<<>>)]

IsZero(f) == Trim(f.m) = <<>>

\* the float nearest to x * 2^e, ties to even (sticky: the exact value is a
\* little above x * 2^e, by less than 2^e)
Round(x, e, sticky) ==
    LET n == BitLen(x)
    IN IF n = 0 THEN Zero
       ELSE IF n <= MantBits
            THEN [e |-> e - (MantBits - n), m |-> Mant(BigShl(x, MantBits - n))]
            ELSE LET k == n - MantBits
                     q == BigShr(x, k)
                     up == Bit(x, k - 1) = 1
                           /\ (LowBits(x, k - 1) \/ sticky \/ Bit(q, 0) = 1)
                     r == IF up THEN BigAdd(q, <<1>>) ELSE q
                 IN IF BitLen(r) > MantBits
                    THEN [e |-> e + k + 1, m |-> Mant(BigShr(r, 1))]
                    ELSE [e |-> e + k, m |-> Mant(r)]

\* a * b
FMul(a, b) == IF IsZero(a) \/ IsZero(b) THEN Zero
              ELSE Round(BigMul(a.m, b.m), a.e + b.e, FALSE)

\* a + b
FAdd(a, b) ==
    IF IsZero(a) THEN b
    ELSE IF IsZero(b) THEN a
    ELSE LET hi == IF a.e >= b.e THEN a ELSE b
             lo == IF a.e >= b.e THEN b ELSE a
             d == hi.e - lo.e
         IN IF d > MantBits + 2 THEN hi
            ELSE Round(BigAdd(BigShl(hi.m, d), lo.m), lo.e, FALSE)

\* a <= b
FLe(a, b) ==
    IF IsZero(a) THEN TRUE
    ELSE IF IsZero(b) THEN FALSE
    ELSE IF a.e # b.e THEN a.e < b.e
    ELSE \/ a.m = b.m
         \/ \E i \in 1..MantLimbs :
               /\ a.m[i] < b.m[i]
               /\ \A j \in (i + 1)..MantLimbs : a.m[j] = b.m[j]

\* long division of x by the small integer n: <<quotient, remainder>>
RECURSIVE DivSmall(_, _, _)
DivSmall(x, n, r) ==
    IF x = <<>> THEN <<<<>>, r>>
    ELSE LET cur == r * Base + x[Len(x)]
             rest == DivSmall(SubSeq(x, 1, Len(x) - 1), n, cur % n)
         IN <<rest[1] \o <<cur \div n>>, rest[2]>>

RECURSIVE FromInt(_)
FromInt(n) == IF n = 0 THEN <<>> ELSE <<n % Base>> \o FromInt(n \div Base)

RECURSIVE ToInt(_)
ToInt(x) == IF x = <<>> THEN 0 ELSE x[1] + Base * ToInt(Tail(x))

\* the float a decimal literal denotes: n / 10^d correctly rounded
\* (1.05 is Dec(105, 2); float("3.5") and a JSON number 3.5 are Dec(35, 1))
Dec(n, d) ==
    LET qr == DivSmall(BigShl(FromInt(n), 5 * LimbBits), Pow10(d), 0)
    IN Round(qr[1], -(5 * LimbBits), qr[2] # 0)

\* A float the program holds unchanged from a literal or a parsed number (a table
\* value, an operation's hours, the labor rate) is written by that decimal,
\* <<n, d>> for n / 10^d; Float is the binary64 value it has.
Float(lit) == Dec(lit[1], lit[2])

\* formatting that cuts the digits off instead of rounding
FmtTruncating(f, d) ==
    IF IsZero(f) THEN 0
    ELSE LET t == BigMul(f.m, FromInt(Pow10(d)))
         IN ToInt(Trim(IF f.e >= 0 THEN BigShl(t, f.e) ELSE BigShr(t, -f.e)))

\* f"{f:.<d>f}": the decimal with d places nearest to the exact value of f,
\* ties to even, as the integer its digits spell (992.58 is 99258)
Fmt(f, d) ==
    IF IsZero(f) THEN 0
    ELSE LET t == BigMul(f.m, FromInt(Pow10(d)))
         IN ToInt(Trim(IF f.e >= 0 THEN BigShl(t, f.e) ELSE ShrRound(t, -f.e)))

\* ---------------------------------------------------------------------------
\* Python str: s.lower(), needle in s
\* ---------------------------------------------------------------------------
UpperCase == <<"A", "B", "C", "D", "E", "F", "G", "H", "I", "J", "K", "L", "M",
               "N", "O", "P", "Q", "R", "S", "T", "U", "V", "W", "X", "Y", "Z">>
LowerCase == <<"a", "b", "c", "d", "e", "f", "g", "h", "i", "j", "k", "l", "m",
               "n", "o", "p", "q", "r", "s", "t", "u", "v", "w", "x", "y", "z">>

LowerChar(c) ==
    IF \E i \in 1..Len(UpperCase) : UpperCase[i] = c
    THEN LowerCase[CHOOSE i \in 1..Len(UpperCase) : UpperCase[i] = c]
    ELSE c

\* s.lower()
Lower(s) == Tuple([i \in 1..Len(s) |-> LowerChar(s[i])])

\* a match at the start of the text only
StartsWith(hay, needle) ==
    /\ Len(needle) <= Len(hay)
    /\ \A j \in 1..Len(needle) : hay[j] = needle[j]

\* needle in hay  (the empty needle is in every string)
Contains(hay, needle) ==
    \E i \in 0..(Len(hay) - Len(needle)) :
        \A j \in 1..Len(needle) : hay[i + j] = needle[j]

\* ---------------------------------------------------------------------------
\* Configuration (identical in both scripts)
\* ---------------------------------------------------------------------------
DEFAULT_LABOR_RATE == <<12500, 2>>

MANUFACTURERS == <<
    <<"C", "N", "H", " ", "(", "C", "a", "s", "e", "/", "N", "e", "w", " ", "H", "o", "l", "l", "a", "n", "d", ")">>,
    <<"C", "a", "t", "e", "r", "p", "i", "l", "l", "a", "r">>,
    <<"J", "o", "h", "n", " ", "D", "e", "e", "r", "e">>,
    <<"K", "o", "m", "a", "t", "s", "u">>,
    <<"V", "o", "l", "v", "o">>,
    <<"H", "i", "t", "a", "c", "h", "i">>,
    <<"L", "i", "e", "b", "h", "e", "r", "r">>,
    <<"J", "C", "B">>,
    <<"D", "o", "o", "s", "a", "n">>,
    <<"K", "u", "b", "o", "t", "a">>,
    <<"O", "t", "h", "e", "r">> >>

FactorNames == <<"age", "condition", "location", "manufacturer", "urgency", "complexity">>

\* DIFFICULTY_FACTORS: per factor the options in dict order, label and multiplier
DIFFICULTY_FACTORS == [
    age |-> <<
        [label |-> "0-2 years (New)", value |-> <<10, 1>>],
        [label |-> "3-5 years (Like New)", value |-> <<105, 2>>],
        [label |-> "6-8 years (Good)", value |-> <<115, 2>>],
        [label |-> "9-12 years (Average)", value |-> <<125, 2>>],
        [label |-> "13-15 years (Older)", value |-> <<135, 2>>],
        [label |-> "16-20 years (Old)", value |-> <<150, 2>>],
        [label |-> "20+ years (Very Old)", value |-> <<175, 2>>] >>,
    condition |-> <<
        [label |-> "Excellent - Well maintained", value |-> <<10, 1>>],
        [label |-> "Good - Normal wear", value |-> <<110, 2>>],
        [label |-> "Fair - Some issues", value |-> <<125, 2>>],
        [label |-> "Poor - Multiple problems", value |-> <<140, 2>>],
        [label |-> "Severe - Major overhaul needed", value |-> <<160, 2>>] >>,
    location |-> <<
        [label |-> "Shop - Full facilities", value |-> <<10, 1>>],
        [label |-> "On-site - Accessible", value |-> <<115, 2>>],
        [label |-> "On-site - Limited access", value |-> <<130, 2>>],
        [label |-> "Remote - Difficult terrain", value |-> <<150, 2>>],
        [label |-> "Remote - Extreme conditions", value |-> <<175, 2>>] >>,
    manufacturer |-> <<
        [label |-> <<"C", "N", "H", " ", "(", "C", "a", "s", "e", "/", "N", "e", "w", " ", "H", "o", "l", "l", "a", "n", "d", ")">>, value |-> <<10, 1>>],
        [label |-> <<"C", "a", "t", "e", "r", "p", "i", "l", "l", "a", "r">>, value |-> <<105, 2>>],
        [label |-> <<"J", "o", "h", "n", " ", "D", "e", "e", "r", "e">>, value |-> <<105, 2>>],
        [label |-> <<"K", "o", "m", "a", "t", "s", "u">>, value |-> <<110, 2>>],
        [label |-> <<"V", "o", "l", "v", "o">>, value |-> <<110, 2>>],
        [label |-> <<"H", "i", "t", "a", "c", "h", "i">>, value |-> <<115, 2>>],
        [label |-> <<"L", "i", "e", "b", "h", "e", "r", "r">>, value |-> <<115, 2>>],
        [label |-> <<"J", "C", "B">>, value |-> <<108, 2>>],
        [label |-> <<"D", "o", "o", "s", "a", "n">>, value |-> <<112, 2>>],
        [label |-> <<"K", "u", "b", "o", "t", "a">>, value |-> <<105, 2>>],
        [label |-> <<"O", "t", "h", "e", "r">>, value |-> <<120, 2>>] >>,
    urgency |-> <<
        [label |-> "Standard - Normal schedule", value |-> <<10, 1>>],
        [label |-> "Priority - Within 3 days", value |-> <<120, 2>>],
        [label |-> "Rush - Next day", value |-> <<150, 2>>],
        [label |-> "Emergency - Same day", value |-> <<200, 2>>] >>,
    complexity |-> <<
        [label |-> "Routine - Standard service", value |-> <<10, 1>>],
        [label |-> "Moderate - Some diagnosis needed", value |-> <<115, 2>>],
        [label |-> "Complex - Extensive troubleshooting", value |-> <<130, 2>>],
        [label |-> "Severe - Complete tear-down", value |-> <<150, 2>>] >> ]

\* ---------------------------------------------------------------------------
\* The database file: model key -> list of {code, description, hours}, in file
\* order; hours is the JSON number n / 10^d, written <<n, d>>
\* ---------------------------------------------------------------------------
SrtJson == <<
    [model_key |-> <<"l", "o", "a", "d", "e", "r", "_", "6", "2", "1", "G">>,
     codes |-> <<
        [code |-> <<"1", "0", ".", "1">>, description |-> <<"O", "i", "l", " ", "s", "e", "a", "l">>, hours |-> <<25, 2>>] >>],
    [model_key |-> <<"e", "x", "c", "a", "v", "a", "t", "o", "r", "_", "5", "8", "0", "N">>,
     codes |-> <<
        [code |-> <<"1", "0", ".", "1">>, description |-> <<"E", "n", "g", "i", "n", "e", " ", "o", "i", "l">>, hours |-> <<20, 1>>],
        [code |-> <<"3", "5", ".", "1">>, description |-> <<"F", "u", "e", "l", " ", "p", "u", "m", "p">>, hours |-> <<35, 1>>] >>] >>

\* ---------------------------------------------------------------------------
\* More of Python str: split, join, title, comparison
\* ---------------------------------------------------------------------------
\* the characters in use, in code-point order
CharOrder == <<" ", "(", ")", ".", "/",
               "0", "1", "2", "3", "4", "5", "6", "7", "8", "9">>
             \o UpperCase \o <<"_">> \o LowerCase

CharRank(c) == CHOOSE i \in 1..Len(CharOrder) : CharOrder[i] = c

IsLetter(c) == \E i \in 1..Len(UpperCase) : UpperCase[i] = c \/ LowerCase[i] = c

UpperChar(c) ==
    IF \E i \in 1..Len(LowerCase) : LowerCase[i] = c
    THEN UpperCase[CHOOSE i \in 1..Len(LowerCase) : LowerCase[i] = c]
    ELSE c

\* a < b for strings
RECURSIVE StrLess(_, _)
StrLess(a, b) ==
    IF b = <<>> THEN FALSE
    ELSE IF a = <<>> THEN TRUE
    ELSE IF a[1] # b[1] THEN CharRank(a[1]) < CharRank(b[1])
    ELSE StrLess(Tail(a), Tail(b))

\* s.split(sep) for a one-character sep
RECURSIVE Split(_, _)
Split(s, sep) ==
    IF \E i \in 1..Len(s) : s[i] = sep
    THEN LET i == CHOOSE i \in 1..Len(s) :
                     s[i] = sep /\ \A j \in 1..(i - 1) : s[j] # sep
         IN <<SubSeq(s, 1, i - 1)>> \o Split(SubSeq(s, i + 1, Len(s)), sep)
    ELSE <<s>>

\* sep.join(parts)
RECURSIVE Join(_, _)
Join(parts, sep) ==
    IF parts = <<>> THEN <<>>
    ELSE IF Len(parts) = 1 THEN parts[1]
    ELSE parts[1] \o sep \o Join(Tail(parts), sep)

\* s.replace(a, b) for one-character a and b
Replace(s, a, b) == Tuple([i \in 1..Len(s) |-> IF s[i] = a THEN b ELSE s[i]])

\* s.title()
Title(s) == Tuple([i \in 1..Len(s) |->
               IF i > 1 /\ IsLetter(s[i - 1]) THEN LowerChar(s[i]) ELSE UpperChar(s[i])])

\* ---------------------------------------------------------------------------
\* load_srt_database.py, JSON path
\* ---------------------------------------------------------------------------
\* an entry that names the model by the last token of its key
ModelEntryLastToken(model_key, codes) ==
    LET parts == Split(model_key, "_")
        equipment_type == Title(Replace(parts[1], "_", " "))
        model_name == parts[Len(parts)]
    IN [model_key |-> model_key,
        display_name |-> equipment_type \o <<" ">> \o model_name,
        equipment_type |-> equipment_type,
        model_name |-> model_name,
        num_codes |-> Len(codes)]

ModelEntry(model_key, codes) ==
    LET parts == Split(model_key, "_")
        equipment_type == Title(Replace(parts[1], "_", " "))
        model_name == IF Len(parts) > 1 THEN Join(Tail(parts), <<"_">>) ELSE parts[1]
    IN [model_key |-> model_key,
        display_name |-> equipment_type \o <<" ">> \o model_name,
        equipment_type |-> equipment_type,
        model_name |-> model_name,
        num_codes |-> Len(codes)]

\* The value of "hours" in the file: a JSON number n / 10^d is <<n, d>>, a JSON
\* string s is <<s, JsonString>>, null is <<<<>>, JsonNull>>.
JsonString == -1
JsonNull == -2

Digits == <<"0", "1", "2", "3", "4", "5", "6", "7", "8", "9">>

IsDigit(c) == \E i \in 1..Len(Digits) : Digits[i] = c

DigitValue(c) == (CHOOSE i \in 1..Len(Digits) : Digits[i] = c) - 1

\* float(s) accepts s: digits with at most one ".", and at least one digit
\* (strings of digits, letters, "." and "/" only)
IsDecimalText(s) ==
    /\ \A i \in 1..Len(s) : IsDigit(s[i]) \/ s[i] = "."
    /\ \E i \in 1..Len(s) : IsDigit(s[i])
    /\ \A i, j \in 1..Len(s) : (s[i] = "." /\ s[j] = ".") => i = j

\* float(s) for such a string, as the decimal it spells
RECURSIVE ParseDecimal(_)
ParseDecimal(s) ==
    IF s = <<>> THEN <<0, 0>>
    ELSE LET init == ParseDecimal(SubSeq(s, 1, Len(s) - 1))
             last == s[Len(s)]
             seen_point == \E i \in 1..(Len(s) - 1) : s[i] = "."
         IN IF last = "." THEN init
            ELSE <<10 * init[1] + DigitValue(last),
                   IF seen_point THEN init[2] + 1 ELSE init[2]>>

\* float(v) returns
Convertible(v) == v[2] >= 0 \/ (v[2] = JsonString /\ IsDecimalText(v[1]))

\* the value as read from the file
PyFloatAsRead(v) == v

\* float(v), when it returns
PyFloat(v) == IF v[2] >= 0 THEN v ELSE ParseDecimal(v[1])

\* the exception float(v) raises otherwise
FloatError(v) == IF v[2] = JsonNull THEN "TypeError" ELSE "ValueError"

\* a conversion that keeps the first row of each model only
FlatRowsFirstOnly(entry, codes) ==
    Tuple([i \in 1..(IF codes = <<>> THEN 0 ELSE 1) |->
        [model_key |-> entry.model_key,
         equipment_type |-> entry.equipment_type,
         model_name |-> entry.model_name,
         code |-> codes[i].code,
         description |-> codes[i].description,
         hours |-> PyFloat(codes[i].hours)]])

FlatRows(entry, codes) ==
    Tuple([i \in 1..Len(codes) |->
        [model_key |-> entry.model_key,
         equipment_type |-> entry.equipment_type,
         model_name |-> entry.model_name,
         code |-> codes[i].code,
         description |-> codes[i].description,
         hours |-> PyFloat(codes[i].hours)]])

RECURSIVE AllCodes(_)
AllCodes(srt_data) ==
    IF srt_data = <<>> THEN <<>>
    ELSE FlatRows(ModelEntry(srt_data[1].model_key, srt_data[1].codes), srt_data[1].codes)
         \o AllCodes(Tail(srt_data))

\* load_srt_database(), JSON path, when every float() returns: the flat table
\* and the model lookup, in file order
LoadSrtDatabase(srt_data) ==
    [df |-> AllCodes(srt_data),
     model_lookup |-> Tuple([i \in 1..Len(srt_data) |->
                          ModelEntry(srt_data[i].model_key, srt_data[i].codes)])]

\* the values of "hours" in the order the loop converts them
RECURSIVE HoursValues(_)
HoursValues(srt_data) ==
    IF srt_data = <<>> THEN <<>>
    ELSE Tuple([i \in 1..Len(srt_data[1].codes) |-> srt_data[1].codes[i].hours])
         \o HoursValues(Tail(srt_data))

\* what a call of load_srt_database gives back
Returned(df, model_lookup) ==
    [ok |-> TRUE, df |-> df, model_lookup |-> model_lookup, error |-> "", message |-> ""]

Raised(error, message) ==
    [ok |-> FALSE, df |-> <<>>, model_lookup |-> <<>>, error |-> error, message |-> message]

\* lines 19-55: the JSON file is there
JsonPath(srt_data) ==
    LET values == HoursValues(srt_data)
        bad == SelectSeq(values, LAMBDA v : ~ Convertible(v))
    IN IF bad # <<>> THEN Raised(FloatError(bad[1]), "could not convert to float")
       ELSE Returned(LoadSrtDatabase(srt_data).df, LoadSrtDatabase(srt_data).model_lookup)

\* s with later repetitions of an element dropped (Series.unique(), dict keys)
RECURSIVE Unique(_)
Unique(s) ==
    IF s = <<>> THEN <<>>
    ELSE LET init == Unique(SubSeq(s, 1, Len(s) - 1))
             last == s[Len(s)]
         IN IF \E i \in 1..Len(init) : init[i] = last THEN init ELSE init \o <<last>>

\* lines 66-79: no model_lookup.pkl, the lookup is rebuilt from the table
RebuildLookup(df) ==
    LET keys == Unique(Tuple([i \in 1..Len(df) |-> df[i].model_key]))
    IN Tuple([k \in 1..Len(keys) |->
          LET mine == SelectSeq(df, LAMBDA row : row.model_key = keys[k])
              model_data == mine[1]
          IN [model_key |-> keys[k],
              display_name |-> model_data.equipment_type \o <<" ">> \o model_data.model_name,
              equipment_type |-> model_data.equipment_type,
              model_name |-> model_data.model_name,
              num_codes |-> Len(mine)]])

\* lines 57-81: the pickled table as it is, with the pickled lookup if there is one
PicklePath(pkl, lookup) ==
    Returned(pkl.data, IF lookup.exists THEN lookup.data ELSE RebuildLookup(pkl.data))

NotFoundMessage ==
    "No database found! Please add 'srt_database_organized.json' to your repo.\nOr run convert_json_to_pickle.py if you have the JSON file."

\* a loader that tries the pickle before the JSON file
LoadSrtDatabaseFilesPickleFirst(files) ==
    IF files.pkl.exists THEN PicklePath(files.pkl, files.lookup)
    ELSE IF files.json.exists THEN JsonPath(files.json.data)
    ELSE Raised("FileNotFoundError", NotFoundMessage)

\* load_srt_database() in a directory holding files: each of
\* srt_database_organized.json, srt_database.pkl, model_lookup.pkl is
\* [exists, data]
LoadSrtDatabaseFiles(files) ==
    IF files.json.exists THEN JsonPath(files.json.data)
    ELSE IF files.pkl.exists THEN PicklePath(files.pkl, files.lookup)
    ELSE Raised("FileNotFoundError", NotFoundMessage)

\* get_models_by_type(model_lookup): equipment types in order of first
\* appearance, each with its model keys in lookup order
GetModelsByType(model_lookup) ==
    LET types == Unique(Tuple([i \in 1..Len(model_lookup) |-> model_lookup[i].equipment_type]))
    IN Tuple([t \in 1..Len(types) |->
          [equipment_type |-> types[t],
           model_keys |-> LET mine == SelectSeq(model_lookup,
                                         LAMBDA e : e.equipment_type = types[t])
                          IN Tuple([i \in 1..Len(mine) |-> mine[i].model_key])]])

\* ---------------------------------------------------------------------------
\* load_srt_database.py: search_srt_codes, get_model_codes
\* ---------------------------------------------------------------------------
\* re.search(pattern, text) for a pattern of letters, digits, spaces and ".":
\* "." stands for any character, every other character for itself
ReSearch(pattern, text) ==
    \E i \in 0..(Len(text) - Len(pattern)) :
        \A j \in 1..Len(pattern) : pattern[j] = "." \/ text[i + j] = pattern[j]

\* a search that compares the query as typed with the lowered descriptions
SearchSrtCodesAsTyped(df, query) ==
    SelectSeq(df, LAMBDA row : ReSearch(query, Lower(row.description)))

\* df[df['description'].str.lower().str.contains(query.lower(), na=False)]
SearchSrtCodes(df, query) ==
    LET query_lower == Lower(query)
    IN SelectSeq(df, LAMBDA row : ReSearch(query_lower, Lower(row.description)))

\* df[df['model_key'] == model_key]
GetModelCodes(df, model_key) == SelectSeq(df, LAMBDA row : row.model_key = model_key)

\* ---------------------------------------------------------------------------
\* load_database() of the two scripts: model key -> operations, in dict order
\* ---------------------------------------------------------------------------
\* pro: json.load of the database file
LoadDatabasePro(srt_data) ==
    Tuple([i \in 1..Len(srt_data) |->
        [model_key |-> srt_data[i].model_key,
         ops |-> Tuple([j \in 1..Len(srt_data[i].codes) |->
                    [code |-> srt_data[i].codes[j].code,
                     description |-> srt_data[i].codes[j].description,
                     hours |-> srt_data[i].codes[j].hours]])]])

\* fixed: the flat table regrouped by model key
Regroup(df) ==
    LET keys == Unique(Tuple([i \in 1..Len(df) |-> df[i].model_key]))
    IN Tuple([k \in 1..Len(keys) |->
          [model_key |-> keys[k],
           ops |-> LET model_data == SelectSeq(df, LAMBDA row : row.model_key = keys[k])
                   IN Tuple([j \in 1..Len(model_data) |->
                         [code |-> model_data[j].code,
                          description |-> model_data[j].description,
                          hours |-> model_data[j].hours]])]])

LoadDatabaseFixed(srt_data) == Regroup(LoadSrtDatabase(srt_data).df)

\* database[model_key]
OpsOf(db, model_key) ==
    db[CHOOSE i \in 1..Len(db) : db[i].model_key = model_key].ops

\* ---------------------------------------------------------------------------
\* Session state and widgets
\* ---------------------------------------------------------------------------
VARIABLES
    variant,             \* which script runs: "pro" or "fixed"
    database,            \* load_database(): cached for the process
    quote_items,         \* st.session_state.quote_items
    difficulty_factors,  \* st.session_state.difficulty_factors
    widgets,             \* the values the widgets hold between runs
    shown,               \* what the last completed run rendered
    call                 \* a call of a library function and its result

vars == <<variant, database, quote_items, difficulty_factors, widgets, shown, call>>

\* bounds of the model
MaxItems == 2

NoCall == [fn |-> "none"]

FactorSet == {FactorNames[i] : i \in 1..Len(FactorNames)}

\* session_state.difficulty_factors before any selection
InitialFactors ==
    [age |-> <<10, 1>>, condition |-> <<10, 1>>, location |-> <<10, 1>>,
     manufacturer |-> <<10, 1>>, urgency |-> <<10, 1>>, complexity |-> <<10, 1>>]

ManufacturerKeys ==
    Tuple([i \in 1..Len(DIFFICULTY_FACTORS.manufacturer) |->
              DIFFICULTY_FACTORS.manufacturer[i].label])

\* the index= argument of the "Equipment Manufacturer" selectbox, as a position
\* (1 is Python's index 0)
MfrDefaultIndex(manufacturer) ==
    LET first == Split(manufacturer, " ")[1]
        arg == IF Contains(manufacturer, <<" ">>) THEN first ELSE manufacturer
    IN IF \E i \in 1..Len(ManufacturerKeys) : ManufacturerKeys[i] = first
       THEN CHOOSE i \in 1..Len(ManufacturerKeys) :
                /\ ManufacturerKeys[i] = arg
                /\ \A j \in 1..(i - 1) : ManufacturerKeys[j] # arg
       ELSE 1

CNH == 1

\* fixed: the model lookup, and the model the sidebar selects by default (first
\* model of the first equipment type in sorted order), as a position in it
model_metadata == LoadSrtDatabase(SrtJson).model_lookup

DefaultModelFixed ==
    LET by_type == GetModelsByType(model_metadata)
        t == CHOOSE t \in 1..Len(by_type) :
                 \A u \in 1..Len(by_type) :
                     u # t => StrLess(by_type[t].equipment_type, by_type[u].equipment_type)
    IN CHOOSE i \in 1..Len(model_metadata) :
           model_metadata[i].model_key = by_type[t].model_keys[1]

\* pro: position 0 of the "Model" selectbox is "All Models"
AllModels == 0

DefaultModel(v) == IF v = "pro" THEN AllModels ELSE DefaultModelFixed

\* ---------------------------------------------------------------------------
\* Sidebar search
\* ---------------------------------------------------------------------------
\* pro, lines 311-322: the matches of one model, as result dicts
ModelResults(model, search_lower) ==
    LET hit == SelectSeq(model.ops,
                   LAMBDA op : LET code_match == Contains(Lower(op.code), search_lower)
                                   desc_match == Contains(Lower(op.description), search_lower)
                               IN code_match \/ desc_match)
    IN Tuple([i \in 1..Len(hit) |->
          [model |-> model.model_key, code |-> hit[i].code,
           description |-> hit[i].description, hours |-> hit[i].hours]])

RECURSIVE ResultsOver(_, _)
ResultsOver(search_models, search_lower) ==
    IF search_models = <<>> THEN <<>>
    ELSE ModelResults(search_models[1], search_lower)
         \o ResultsOver(Tail(search_models), search_lower)

\* a search that runs whatever the query, the empty one included
SearchProUnguarded(db, selected_model, search_query) ==
    LET search_models == IF selected_model = AllModels THEN db
                         ELSE <<db[selected_model]>>
    IN ResultsOver(search_models, Lower(search_query))

\* pro, lines 299-351: the results list (empty when nothing is searched)
SearchPro(db, selected_model, search_query) ==
    IF search_query # <<>>
    THEN LET search_models == IF selected_model = AllModels THEN db
                              ELSE <<db[selected_model]>>
         IN ResultsOver(search_models, Lower(search_query))
    ELSE <<>>

\* fixed, lines 326-346: filtered_ops
FilteredOps(db, selected_model, search_term) ==
    LET available_operations == OpsOf(db, model_metadata[selected_model].model_key)
    IN IF search_term # <<>>
       THEN SelectSeq(available_operations,
                LAMBDA op : \/ Contains(Lower(op.description), Lower(search_term))
                            \/ Contains(Lower(op.code), Lower(search_term)))
       ELSE available_operations

\* the Add buttons a run renders: the first 10 results (pro), the first 20
\* filtered operations (fixed, CNH only)
ShowLimit(v) == IF v = "pro" THEN 10 ELSE 20

Min(a, b) == IF a < b THEN a ELSE b

\* ---------------------------------------------------------------------------
\* The three summaries: what each displays, from the items and factors it read
\* ---------------------------------------------------------------------------
\* sum(item['hours'] for item in items)
RECURSIVE SumHours(_)
SumHours(items) ==
    IF items = <<>> THEN Zero
    ELSE FAdd(SumHours(SubSeq(items, 1, Len(items) - 1)), Float(items[Len(items)].hours))

\* a loop that adds the factors up instead of multiplying them
RECURSIVE MultiplyInAdding(_, _, _)
MultiplyInAdding(total, factors, names) ==
    IF names = <<>> THEN total
    ELSE MultiplyInAdding(FAdd(total, Float(factors[names[1]])), factors, Tail(names))

\* total = 1.0; for v in difficulty_factors.values(): total *= v
RECURSIVE MultiplyIn(_, _, _)
MultiplyIn(total, factors, names) ==
    IF names = <<>> THEN total
    ELSE MultiplyIn(FMul(total, Float(factors[names[1]])), factors, Tail(names))

TotalMultiplier(factors) == MultiplyIn(Dec(10, 1), factors, FactorNames)

\* tab1 Quick Summary
QuickSummary(view) ==
    LET base_hours == SumHours(view.items)
        total_multiplier == TotalMultiplier(view.factors)
    IN [operations |-> Len(view.items),
        base_hours |-> base_hours,
        adjusted_hours |-> FMul(base_hours, total_multiplier),
        total_multiplier |-> total_multiplier]

\* tab2 Combined Impact
CombinedImpact(view) ==
    LET total_mult == TotalMultiplier(view.factors)
        base == SumHours(view.items)
    IN [total_mult |-> total_mult, base |-> base, adjusted |-> FMul(base, total_mult)]

\* a Review tab that prices the base hours, leaving the multiplier out
ReviewTotalsUnadjusted(view) ==
    LET base_hours == SumHours(view.items)
        total_multiplier == TotalMultiplier(view.factors)
    IN [base_hours |-> base_hours,
        total_multiplier |-> total_multiplier,
        adjusted_hours |-> base_hours,
        total_cost |-> FMul(base_hours, Float(view.labor_rate))]

\* tab3 Calculate totals
ReviewTotals(view) ==
    LET base_hours == SumHours(view.items)
        total_multiplier == TotalMultiplier(view.factors)
        adjusted_hours == FMul(base_hours, total_multiplier)
    IN [base_hours |-> base_hours,
        total_multiplier |-> total_multiplier,
        adjusted_hours |-> adjusted_hours,
        total_cost |-> FMul(adjusted_hours, Float(view.labor_rate))]

\* a breakdown that prices every row with the first row's hours
QuoteDataFirstRow(view) ==
    LET total_multiplier == ReviewTotals(view).total_multiplier
    IN Tuple([i \in 1..Len(view.items) |->
          LET item == view.items[i]
              adjusted_item_hours == FMul(Float(view.items[1].hours), total_multiplier)
              item_cost == FMul(adjusted_item_hours, Float(view.labor_rate))
          IN [code |-> item.code,
              description |-> item.description,
              model |-> item.model,
              base_hours |-> Fmt(Float(item.hours), 1),
              adj_hours |-> Fmt(adjusted_item_hours, 1),
              cost |-> Fmt(item_cost, 2)]])

\* tab3 Detailed Breakdown: quote_data, the rows of the table and the exports
QuoteData(view) ==
    LET total_multiplier == ReviewTotals(view).total_multiplier
    IN Tuple([i \in 1..Len(view.items) |->
          LET item == view.items[i]
              adjusted_item_hours == FMul(Float(item.hours), total_multiplier)
              item_cost == FMul(adjusted_item_hours, Float(view.labor_rate))
          IN [code |-> item.code,
              description |-> item.description,
              model |-> item.model,
              base_hours |-> Fmt(Float(item.hours), 1),
              adj_hours |-> Fmt(adjusted_item_hours, 1),
              cost |-> Fmt(item_cost, 2)]])

\* ---------------------------------------------------------------------------
\* One complete run of the script, top to bottom
\* ---------------------------------------------------------------------------
\* A widget that a run does not render loses its value; a selectbox whose
\* index= argument changes is a new widget and starts from that index.
Off == [on |-> FALSE, items |-> <<>>, factors |-> InitialFactors,
        labor_rate |-> DEFAULT_LABOR_RATE]

View(items, factors, rate) ==
    [on |-> TRUE, items |-> items, factors |-> factors, labor_rate |-> rate]

\* the widget values after the run: w as the run leaves it
RunWidgets(v, items, w) ==
    LET index == MfrDefaultIndex(MANUFACTURERS[w.manufacturer])
        cnh == v = "pro" \/ w.manufacturer = CNH
    IN [w EXCEPT
          !.selected_model = IF cnh THEN @ ELSE DefaultModel(v),
          !.search_query = IF cnh THEN @ ELSE <<>>,
          !.sel = IF index # w.mfr_index THEN [@ EXCEPT !.manufacturer = index] ELSE @,
          !.mfr_index = index,
          !.labor_rate = IF items = <<>> THEN DEFAULT_LABOR_RATE ELSE @]

\* an assignment that looks the condition up in the age table
AssignFactorsWrongTable(w) ==
    [age |-> DIFFICULTY_FACTORS.age[w.sel.age].value,
     condition |-> DIFFICULTY_FACTORS.age[w.sel.condition].value,
     location |-> DIFFICULTY_FACTORS.location[w.sel.location].value,
     manufacturer |-> DIFFICULTY_FACTORS.manufacturer[w.sel.manufacturer].value,
     urgency |-> DIFFICULTY_FACTORS.urgency[w.sel.urgency].value,
     complexity |-> DIFFICULTY_FACTORS.complexity[w.sel.complexity].value]

\* tab2: session_state.difficulty_factors[f] = DIFFICULTY_FACTORS[f][selection]
AssignFactors(w) ==
    [age |-> DIFFICULTY_FACTORS.age[w.sel.age].value,
     condition |-> DIFFICULTY_FACTORS.condition[w.sel.condition].value,
     location |-> DIFFICULTY_FACTORS.location[w.sel.location].value,
     manufacturer |-> DIFFICULTY_FACTORS.manufacturer[w.sel.manufacturer].value,
     urgency |-> DIFFICULTY_FACTORS.urgency[w.sel.urgency].value,
     complexity |-> DIFFICULTY_FACTORS.complexity[w.sel.complexity].value]

\* a run that prices the quote whether or not it has items
RunShownUnguarded(v, db, items, factors, w) ==
    [results |-> IF v = "pro" THEN SearchPro(db, w.selected_model, w.search_query)
                 ELSE IF w.manufacturer = CNH
                      THEN FilteredOps(db, w.selected_model, w.search_query)
                      ELSE <<>>,
     quick |-> View(items, factors, DEFAULT_LABOR_RATE),
     combined |-> View(items, AssignFactors(w), DEFAULT_LABOR_RATE),
     review |-> View(items, AssignFactors(w), w.labor_rate)]

\* what the run renders; factors are the session's factors as the run starts
RunShown(v, db, items, factors, w) ==
    [results |-> IF v = "pro" THEN SearchPro(db, w.selected_model, w.search_query)
                 ELSE IF w.manufacturer = CNH
                      THEN FilteredOps(db, w.selected_model, w.search_query)
                      ELSE <<>>,
     quick |-> IF items # <<>> THEN View(items, factors, DEFAULT_LABOR_RATE) ELSE Off,
     combined |-> View(items, AssignFactors(w), DEFAULT_LABOR_RATE),
     review |-> IF items # <<>> THEN View(items, AssignFactors(w), w.labor_rate) ELSE Off]

\* a run that takes the operations of the quote out of the database
RunTakingFromDatabase(items, w) ==
    LET after == RunWidgets(variant, items, w)
    IN /\ quote_items' = items
       /\ widgets' = after
       /\ difficulty_factors' = AssignFactors(after)
       /\ shown' = RunShown(variant, database, items, difficulty_factors, after)
       /\ database' = Tuple([k \in 1..Len(database) |->
                          [database[k] EXCEPT !.ops =
                              SelectSeq(@, LAMBDA op :
                                  ~ \E j \in 1..Len(items) : items[j].code = op.code)]])
       /\ UNCHANGED <<variant, call>>

\* a complete run on the session (items, difficulty_factors) with widget values w
Run(items, w) ==
    LET after == RunWidgets(variant, items, w)
    IN /\ quote_items' = items
       /\ widgets' = after
       /\ difficulty_factors' = AssignFactors(after)
       /\ shown' = RunShown(variant, database, items, difficulty_factors, after)
       /\ UNCHANGED <<variant, database, call>>

\* ---------------------------------------------------------------------------
\* What the user enters (small sets of inputs)
\* ---------------------------------------------------------------------------
ManufacturerChoices == {1, 2}

Queries == {<<>>, <<"O", "I", "L">>, <<"3", "5">>}

FactorChoices == [age |-> {4}, condition |-> {2}, location |-> {1},
                  manufacturer |-> {1}, urgency |-> {1}, complexity |-> {1}]

LaborRates == {<<9550, 2>>}

ManualCodes == {<<>>, <<"1", "0", ".", "1">>}
ManualDescriptions == {<<>>, <<"W", "e", "l", "d">>}
ManualHours == {<<10, 1>>}

\* st.number_input(min_value=0.0, ...)
MinValue == <<0, 1>>

\* manual_hours: value=1.0
DefaultManualHours == <<10, 1>>

Below(a, b) == a[1] * Pow10(b[2]) < b[1] * Pow10(a[2])

\* a number input that returns whatever is typed
NumberInputUnchecked(min_value, typed, kept) == {typed}

\* the values st.number_input(min_value=...) can return once typed is entered,
\* kept being the value it had: a number below min_value does not come
\* through, the widget returns min_value or stays at kept
NumberInput(min_value, typed, kept) ==
    IF Below(typed, min_value) THEN {min_value, kept} ELSE {typed}

\* ---------------------------------------------------------------------------
\* The session: its first run, and one action per user interaction.  A button
\* handler that calls st.rerun() is followed at once by a complete run.
\* ---------------------------------------------------------------------------
InitialWidgets(v) ==
    [manufacturer |-> 1,
     selected_model |-> DefaultModel(v),
     search_query |-> <<>>,
     sel |-> [age |-> 1, condition |-> 1, location |-> 1, manufacturer |-> 1,
             urgency |-> 1, complexity |-> 1],
     mfr_index |-> MfrDefaultIndex(MANUFACTURERS[1]),
     labor_rate |-> DEFAULT_LABOR_RATE]

LoadDatabase(v) == IF v = "pro" THEN LoadDatabasePro(SrtJson) ELSE LoadDatabaseFixed(SrtJson)

Init ==
    /\ variant \in {"pro", "fixed"}
    /\ database = LoadDatabase(variant)
    /\ quote_items = <<>>
    /\ difficulty_factors = AssignFactors(InitialWidgets(variant))
    /\ widgets = InitialWidgets(variant)
    /\ shown = RunShown(variant, database, <<>>, InitialFactors, InitialWidgets(variant))
    /\ call = NoCall

InSession == call = NoCall

SearchRendered == variant = "pro" \/ widgets.manufacturer = CNH

\* sidebar "Manufacturer" selectbox
SetManufacturer(m) ==
    /\ InSession
    /\ Run(quote_items, [widgets EXCEPT !.manufacturer = m])

\* sidebar "Model" selectbox (fixed: "Equipment Type", then "Model")
SelectModel(k) ==
    /\ InSession
    /\ SearchRendered
    /\ IF variant = "pro" THEN k \in 0..Len(database) ELSE k \in 1..Len(model_metadata)
    /\ Run(quote_items, [widgets EXCEPT !.selected_model = k])

\* sidebar search box
TypeSearch(q) ==
    /\ InSession
    /\ SearchRendered
    /\ Run(quote_items, [widgets EXCEPT !.search_query = q])

\* fixed, lines 372-377
QuoteItem(op, selected_display) ==
    [code |-> op.code, description |-> op.description, hours |-> op.hours,
     model |-> selected_display]

\* a test that lets every operation through
NotYetAddedWhatever(items, op) == TRUE

\* fixed, line 380: not any(item['code'] == op['code'] for item in quote_items)
NotYetAdded(items, op) == ~ \E j \in 1..Len(items) : items[j].code = op.code

\* a handler that puts the new item first
AddedItemsInFront(v, items, results, i, selected_display) ==
    IF v = "pro" THEN <<results[i]>> \o items
    ELSE IF NotYetAdded(items, results[i])
         THEN <<QuoteItem(results[i], selected_display)>> \o items
         ELSE items

\* the items after the i-th Add button's handler
AddedItems(v, items, results, i, selected_display) ==
    IF v = "pro" THEN Append(items, results[i])
    ELSE IF NotYetAdded(items, results[i])
         THEN Append(items, QuoteItem(results[i], selected_display))
         ELSE items

\* sidebar "Add" button number i
ClickAdd(i) ==
    /\ InSession
    /\ i \in 1..Min(ShowLimit(variant), Len(shown.results))
    /\ Len(quote_items) < MaxItems
    /\ Run(AddedItems(variant, quote_items, shown.results, i,
                      IF variant = "pro" THEN <<>>
                      ELSE model_metadata[widgets.selected_model].display_name),
           widgets)

\* fixed, lines 397-414: the manual entry form, submitted
ManualItems(items, manufacturer, manual_code, manual_desc, manual_hours) ==
    IF manual_code # <<>> /\ manual_desc # <<>>
    THEN Append(items, [code |-> manual_code, description |-> manual_desc,
                        hours |-> manual_hours,
                        model |-> manufacturer \o <<" ", "(", "M", "a", "n", "u", "a", "l", " ", "E", "n", "t", "r", "y", ")">>])
    ELSE items

ManualAdd(manual_code, manual_desc, manual_hours) ==
    /\ InSession
    /\ variant = "fixed"
    /\ widgets.manufacturer # CNH
    /\ Len(quote_items) < MaxItems
    /\ \E hours \in NumberInput(MinValue, manual_hours, DefaultManualHours) :
          Run(ManualItems(quote_items, MANUFACTURERS[widgets.manufacturer],
                          manual_code, manual_desc, hours),
              widgets)

\* a pop that takes the last item whatever i
PopLast(items, i) == SubSeq(items, 1, Len(items) - 1)

\* quote_items.pop(i), i a position
Pop(items, i) == SubSeq(items, 1, i - 1) \o SubSeq(items, i + 1, Len(items))

\* a pop that takes no index below 0
ListPopFromZero(items, idx) ==
    IF idx >= 0 /\ idx < Len(items)
    THEN [raised |-> "", items |-> Pop(items, idx + 1)]
    ELSE [raised |-> "IndexError", items |-> items]

\* quote_items.pop(idx) for any integer idx, counted from 0 as the scripts do:
\* list.pop counts an index below 0 from the end, and raises IndexError
\* outside -len..len-1
ListPop(items, idx) ==
    IF idx >= 0 /\ idx < Len(items)
    THEN [raised |-> "", items |-> Pop(items, idx + 1)]
    ELSE IF idx < 0 /\ idx >= - Len(items)
    THEN [raised |-> "", items |-> Pop(items, Len(items) + idx + 1)]
    ELSE [raised |-> "IndexError", items |-> items]

\* tab1 "Remove" button of item i
ClickRemove(i) ==
    /\ InSession
    /\ i \in 1..Len(quote_items)
    /\ Run(ListPop(quote_items, i - 1).items, widgets)

\* tab2: one of the six selectboxes
SelectFactor(f, option) ==
    /\ InSession
    /\ option \in 1..Len(DIFFICULTY_FACTORS[f])
    /\ Run(quote_items, [widgets EXCEPT !.sel[f] = option])

\* tab3 "Labor Rate" input, rendered when the quote has items
SetLaborRate(rate) ==
    /\ InSession
    /\ quote_items # <<>>
    /\ \E value \in NumberInput(MinValue, rate, widgets.labor_rate) :
          Run(quote_items, [widgets EXCEPT !.labor_rate = value])

\* a clear that also puts every widget back to its first value
ClickClearAll ==
    /\ InSession
    /\ quote_items # <<>>
    /\ Run(<<>>, InitialWidgets(variant))

\* tab3 "Clear Quote" button, rendered when the quote has items
ClickClear ==
    /\ InSession
    /\ quote_items # <<>>
    /\ Run(<<>>, widgets)

\* tab3 "Download CSV" / "Download Excel" button, rendered when the quote has
\* items: the click is a run, the file is QuoteData of that run
ClickDownload ==
    /\ InSession
    /\ quote_items # <<>>
    /\ Run(quote_items, widgets)

Next ==
    \/ \E m \in ManufacturerChoices : SetManufacturer(m)
    \/ \E k \in 0..Len(SrtJson) : SelectModel(k)
    \/ \E q \in Queries : TypeSearch(q)
    \/ \E i \in 1..ShowLimit(variant) : ClickAdd(i)
    \/ \E c \in ManualCodes, d \in ManualDescriptions, h \in ManualHours : ManualAdd(c, d, h)
    \/ \E i \in 1..MaxItems : ClickRemove(i)
    \/ \E f \in FactorSet : \E option \in FactorChoices[f] : SelectFactor(f, option)
    \/ \E rate \in LaborRates : SetLaborRate(rate)
    \/ ClickClear
    \/ ClickDownload

Spec == Init /\ [][Next]_vars

\* ---------------------------------------------------------------------------
\* The session with every factor at either end of its table
\* ---------------------------------------------------------------------------
LastOption(f) == Len(DIFFICULTY_FACTORS[f])

NextFactors ==
    \/ TypeSearch(<<"O", "I", "L">>)
    \/ ClickAdd(1)
    \/ \E f \in FactorSet : SelectFactor(f, LastOption(f))

SpecFactors == Init /\ [][NextFactors]_vars

\* ---------------------------------------------------------------------------
\* The session with numbers below zero typed into the number inputs;
\* <<-n, d>> is -n / 10^d
\* ---------------------------------------------------------------------------
TypedRates == LaborRates \cup {<<-500, 2>>}

TypedHours == ManualHours \cup {<<-25, 1>>}

NextTyped ==
    \/ \E m \in ManufacturerChoices : SetManufacturer(m)
    \/ SelectModel(1)
    \/ TypeSearch(<<"O", "I", "L">>)
    \/ ClickAdd(1)
    \/ \E h \in TypedHours : ManualAdd(<<"1", "0", ".", "1">>, <<"W", "e", "l", "d">>, h)
    \/ \E i \in 1..MaxItems : ClickRemove(i)
    \/ SelectFactor("age", LastOption("age"))
    \/ \E rate \in TypedRates : SetLaborRate(rate)
    \/ ClickClear

SpecTyped == Init /\ [][NextTyped]_vars

\* ---------------------------------------------------------------------------
\* The session with every manufacturer of the sidebar, the "Equipment
\* Manufacturer" selectbox of tab2 left alone
\* ---------------------------------------------------------------------------
NextManufacturers ==
    \/ \E m \in 1..Len(MANUFACTURERS) : SetManufacturer(m)
    \/ TypeSearch(<<"O", "I", "L">>)
    \/ ClickAdd(1)
    \/ ClickClear

SpecManufacturers == Init /\ [][NextManufacturers]_vars

\* ---------------------------------------------------------------------------
\* Calls of the functions: call holds the arguments, then the value returned
\* ---------------------------------------------------------------------------
NoSession ==
    /\ variant = "library"
    /\ database = <<>>
    /\ quote_items = <<>>
    /\ difficulty_factors = InitialFactors
    /\ widgets = InitialWidgets("pro")
    /\ shown = [results |-> <<>>, quick |-> Off, combined |-> Off, review |-> Off]

\* the rows of s at the positions in keep, in order
RECURSIVE Rows(_, _)
Rows(s, keep) ==
    IF s = <<>> THEN <<>>
    ELSE Rows(SubSeq(s, 1, Len(s) - 1), keep)
         \o (IF Len(s) \in keep THEN <<s[Len(s)]>> ELSE <<>>)

\* the database file the searched tables are drawn from
SearchJson == <<
    [model_key |-> <<"l", "o", "a", "d", "e", "r", "_", "6", "2", "1", "G">>,
     codes |-> <<
        [code |-> <<"1", "0", ".", "1">>, description |-> <<"E", "n", "g", "i", "n", "e", " ", "o", "i", "l", " ", "a", "n", "d", " ", "f", "i", "l", "t", "e", "r", " ", "c", "h", "a", "n", "g", "e">>, hours |-> <<15, 1>>],
        [code |-> <<"3", "5", ".", "1">>, description |-> <<"F", "u", "e", "l", " ", "p", "u", "m", "p">>, hours |-> <<35, 1>>],
        [code |-> <<"2", "2", ".", "3">>, description |-> <<"H", "y", "d", "r", "a", "u", "l", "i", "c", " ", "f", "i", "l", "t", "e", "r">>, hours |-> <<10, 1>>] >>],
    [model_key |-> <<"d", "o", "z", "e", "r", "_", "8", "5", "0", "M">>,
     codes |-> <<
        [code |-> <<"1", "0", ".", "1">>, description |-> <<"O", "i", "l", " ", "s", "e", "a", "l">>, hours |-> <<25, 2>>],
        [code |-> <<"4", "1", ".", "2">>, description |-> <<"T", "r", "a", "c", "k", " ", "l", "i", "n", "k">>, hours |-> <<20, 1>>] >>] >>

SearchQueries == {<<>>, <<"O", "I", "L">>, <<"1", "0", ".", "1">>, <<"3", "5">>, <<"F", "i", "l", "t", "e", "r">>}

InitSearch ==
    /\ NoSession
    /\ \E keep \in SUBSET (1..Len(LoadSrtDatabase(SearchJson).df)), query \in SearchQueries :
          call = [fn |-> "search_srt_codes",
                  df |-> Rows(LoadSrtDatabase(SearchJson).df, keep),
                  query |-> query,
                  returned |-> FALSE,
                  result |-> <<>>]

ReturnSearch ==
    /\ call.fn = "search_srt_codes"
    /\ ~ call.returned
    /\ call' = [call EXCEPT !.returned = TRUE,
                            !.result = SearchSrtCodes(call.df, call.query)]
    /\ UNCHANGED <<variant, database, quote_items, difficulty_factors, widgets, shown>>

SpecSearch == InitSearch /\ [][ReturnSearch]_vars

\* load_srt_database() over the files of a directory, then the start of the
\* fixed tool on what it returned
MaxModels == 2

LoadKeys == {<<"e", "x", "c", "a", "v", "a", "t", "o", "r", "_", "5", "8", "0", "N">>,
             <<"l", "o", "a", "d", "e", "r">>,
             <<"s", "k", "i", "d", "_", "s", "t", "e", "e", "r", "_", "S", "R", "1", "7", "5">>}

OilChange == [code |-> <<"1", "0", ".", "1">>, description |-> <<"O", "i", "l">>, hours |-> <<15, 1>>]

PumpAsText ==
    [code |-> <<"3", "5", ".", "1">>, description |-> <<"P", "u", "m", "p">>,
     hours |-> <<<<"2", ".", "5">>, JsonString>>]

NotANumber ==
    [code |-> <<"4", "1", ".", "2">>, description |-> <<"L", "i", "n", "k">>,
     hours |-> <<<<"n", "/", "a">>, JsonString>>]

NoHours ==
    [code |-> <<"2", "2", ".", "3">>, description |-> <<"S", "e", "a", "l">>,
     hours |-> <<<<>>, JsonNull>>]

CodeLists == {<<>>, <<OilChange>>, <<OilChange, PumpAsText>>, <<OilChange, NotANumber>>, <<NoHours>>}

\* the mappings a JSON file can hold: up to MaxModels models, keys distinct
JsonFiles ==
    {srt_data \in UNION {[1..n -> [model_key : LoadKeys, codes : CodeLists]] : n \in 0..MaxModels} :
        \A i, j \in 1..Len(srt_data) : srt_data[i].model_key = srt_data[j].model_key => i = j}

\* pickled tables: the one converted from SrtJson, and one whose rows of a
\* model are apart and disagree on the type
MixedTable ==
    <<[model_key |-> <<"l", "o", "a", "d", "e", "r">>, equipment_type |-> <<"L", "o", "a", "d", "e", "r">>,
       model_name |-> <<"l", "o", "a", "d", "e", "r">>,
       code |-> <<"1", "0", ".", "1">>, description |-> <<"O", "i", "l">>, hours |-> <<15, 1>>],
      [model_key |-> <<"d", "o", "z", "e", "r">>, equipment_type |-> <<"D", "o", "z", "e", "r">>,
       model_name |-> <<"d", "o", "z", "e", "r">>,
       code |-> <<"4", "1", ".", "2">>, description |-> <<"L", "i", "n", "k">>, hours |-> <<20, 1>>],
      [model_key |-> <<"l", "o", "a", "d", "e", "r">>, equipment_type |-> <<"W", "h", "e", "e", "l">>,
       model_name |-> <<"6", "2", "1", "G">>,
       code |-> <<"3", "5", ".", "1">>, description |-> <<"P", "u", "m", "p">>, hours |-> <<25, 1>>]>>

PklTables == {LoadSrtDatabase(SrtJson).df, MixedTable}

\* a pickled lookup, older than the table beside it
PklLookups ==
    {<<[model_key |-> <<"l", "o", "a", "d", "e", "r">>,
        display_name |-> <<"L", "o", "a", "d", "e", "r", " ", "l", "o", "a", "d", "e", "r">>,
        equipment_type |-> <<"L", "o", "a", "d", "e", "r">>,
        model_name |-> <<"l", "o", "a", "d", "e", "r">>,
        num_codes |-> 7]>>}

Missing == [exists |-> FALSE, data |-> <<>>]

Present(contents) == {[exists |-> TRUE, data |-> data] : data \in contents}

InitLoad ==
    /\ NoSession
    /\ \E json \in {Missing} \cup Present(JsonFiles),
          pkl \in {Missing} \cup Present(PklTables),
          lookup \in {Missing} \cup Present(PklLookups) :
          call = [fn |-> "load_srt_database",
                  files |-> [json |-> json, pkl |-> pkl, lookup |-> lookup],
                  returned |-> FALSE,
                  result |-> Raised("", "")]

ReturnLoad ==
    /\ call.fn = "load_srt_database"
    /\ ~ call.returned
    /\ call' = [call EXCEPT !.returned = TRUE,
                            !.result = LoadSrtDatabaseFiles(call.files)]
    /\ UNCHANGED <<variant, database, quote_items, difficulty_factors, widgets, shown>>

\* fixed, lines 225-227: df['model_key'] is there; pd.DataFrame([]), the table
\* of a file without any operation, has no column at all
HasModelKeyColumn(df) == df # <<>>

\* fixed, lines 217-267 when load_srt_database() returned: the table is
\* regrouped and the session state is created
StartSession ==
    /\ call.fn = "load_srt_database"
    /\ call.returned
    /\ call.result.ok
    /\ HasModelKeyColumn(call.result.df)
    /\ variant = "library"
    /\ variant' = "fixed"
    /\ database' = Regroup(call.result.df)
    /\ quote_items' = <<>>
    /\ difficulty_factors' = InitialFactors
    /\ UNCHANGED <<widgets, shown, call>>

\* fixed, lines 238-244 when load_srt_database() raised, or the regrouping
\* did (KeyError: 'model_key'): st.error, st.stop
StopAtError ==
    /\ call.fn = "load_srt_database"
    /\ call.returned
    /\ ~ (call.result.ok /\ HasModelKeyColumn(call.result.df))
    /\ variant = "library"
    /\ variant' = "stopped"
    /\ UNCHANGED <<database, quote_items, difficulty_factors, widgets, shown, call>>

NextLoad == ReturnLoad \/ StartSession \/ StopAtError

SpecLoad == InitLoad /\ [][NextLoad]_vars

\* quote_items.pop(idx) on a list of up to MaxPopItems items
MaxPopItems == 3

PopItems ==
    {[code |-> <<"1", "0", ".", "1">>, description |-> <<"O", "i", "l">>, hours |-> <<15, 1>>,
      model |-> <<"L", "o", "a", "d", "e", "r">>],
     [code |-> <<"3", "5", ".", "1">>, description |-> <<"P", "u", "m", "p">>, hours |-> <<25, 1>>,
      model |-> <<"L", "o", "a", "d", "e", "r">>]}

InitPop ==
    /\ NoSession
    /\ \E items \in UNION {[1..n -> PopItems] : n \in 0..MaxPopItems},
          idx \in (- MaxPopItems - 1)..(MaxPopItems + 1) :
          call = [fn |-> "pop",
                  items |-> items,
                  idx |-> idx,
                  returned |-> FALSE,
                  result |-> [raised |-> "", items |-> <<>>]]

ReturnPop ==
    /\ call.fn = "pop"
    /\ ~ call.returned
    /\ call' = [call EXCEPT !.returned = TRUE,
                            !.result = ListPop(call.items, call.idx)]
    /\ UNCHANGED <<variant, database, quote_items, difficulty_factors, widgets, shown>>

SpecPop == InitPop /\ [][ReturnPop]_vars

\* the multiplier loop, called with the dict's keys in the order names
ComposeInputs ==
    [age : {<<10, 1>>}, condition : {<<10, 1>>}, location : {<<10, 1>>},
     manufacturer : {<<10, 1>>, <<105, 2>>},
     urgency : {<<10, 1>>, <<120, 2>>},
     complexity : {<<10, 1>>, <<115, 2>>}]

\* the orders of the six keys
KeyOrders ==
    {order \in [1..Len(FactorNames) -> FactorSet] :
        \A i, j \in 1..Len(FactorNames) : i # j => order[i] # order[j]}

InitCompose ==
    /\ NoSession
    /\ \E factors \in ComposeInputs, order \in KeyOrders :
          call = [fn |-> "total_multiplier",
                  factors |-> factors,
                  names |-> Tuple(order),
                  returned |-> FALSE,
                  result |-> Zero]

ReturnCompose ==
    /\ call.fn = "total_multiplier"
    /\ ~ call.returned
    /\ call' = [call EXCEPT !.returned = TRUE,
                            !.result = MultiplyIn(Dec(10, 1), call.factors, call.names)]
    /\ UNCHANGED <<variant, database, quote_items, difficulty_factors, widgets, shown>>

SpecCompose == InitCompose /\ [][ReturnCompose]_vars

\* ---------------------------------------------------------------------------
\* Pricing (Review & Export)
\* ---------------------------------------------------------------------------
\* the quote and the settings of the end-to-end scenario: items of 2.0 and 3.5
\* hours, age 1.25, condition 1.10, manufacturer 1.05, the rest 1.0, rate 125.00
ScenarioState ==
    /\ Len(quote_items) = 2
    /\ quote_items[1].hours = <<20, 1>>
    /\ quote_items[2].hours = <<35, 1>>
    /\ difficulty_factors = [age |-> <<125, 2>>, condition |-> <<110, 2>>,
                             location |-> <<10, 1>>, manufacturer |-> <<105, 2>>,
                             urgency |-> <<10, 1>>, complexity |-> <<10, 1>>]
    /\ widgets.labor_rate = <<12500, 2>>

\* C1: whenever the Review tab shows totals, base hours are the sum of the
\* hours of the quote's items, adjusted hours are base hours times the
\* multiplier composed from the session's six factors, and the total cost is
\* adjusted hours times the labor rate entered.
C1_ReviewTotals ==
    shown.review.on =>
        LET totals == ReviewTotals(shown.review)
            composed == TotalMultiplier(difficulty_factors)
        IN /\ totals.base_hours = SumHours(quote_items)
           /\ totals.total_multiplier = composed
           /\ totals.adjusted_hours = FMul(SumHours(quote_items), composed)
           /\ totals.total_cost = FMul(FMul(SumHours(quote_items), composed),
                                       Float(widgets.labor_rate))

C1_Witness ==
    /\ shown.review.on
    /\ Len(quote_items) = 2
    /\ quote_items[1].hours # quote_items[2].hours
    /\ widgets.sel.age = 4
    /\ widgets.labor_rate = <<9550, 2>>

\* C2 as stated: in the scenario the Review tab shows base hours 5.5, a
\* multiplier of 1.4438, adjusted hours 7.9406 and a total cost of 992.57.
C2_Stated ==
    ScenarioState =>
        LET totals == ReviewTotals(shown.review)
        IN /\ shown.review.on
           /\ totals.base_hours = Dec(55, 1)
           /\ Fmt(totals.total_multiplier, 4) = 14438
           /\ Fmt(totals.adjusted_hours, 4) = 79406
           /\ Fmt(totals.total_cost, 2) = 99257

\* C2: in the scenario the Review tab shows base hours 5.5, a multiplier of
\* 1.4438 and adjusted hours 7.9406 (four decimals), and a total cost that
\* displays as 992.58 (two decimals): the cost is 992.578125 up to rounding.
C2_Scenario ==
    ScenarioState =>
        LET totals == ReviewTotals(shown.review)
        IN /\ shown.review.on
           /\ totals.base_hours = Dec(55, 1)
           /\ Fmt(totals.total_multiplier, 4) = 14438
           /\ Fmt(totals.adjusted_hours, 4) = 79406
           /\ Fmt(totals.total_cost, 2) = 99258

C2_Witness == ScenarioState /\ shown.review.on

\* C6: the breakdown has one row per quote item, in the items' order, and row
\* i shows the item's hours times the multiplier of the totals as adjusted
\* hours, and that times the labor rate of the totals as cost.
C6_UniformRows ==
    shown.review.on =>
        LET rows == QuoteData(shown.review)
            totals == ReviewTotals(shown.review)
        IN /\ Len(rows) = Len(quote_items)
           /\ \A i \in 1..Len(quote_items) :
                 LET adjusted == FMul(Float(quote_items[i].hours), totals.total_multiplier)
                 IN /\ rows[i].code = quote_items[i].code
                    /\ rows[i].description = quote_items[i].description
                    /\ rows[i].base_hours = Fmt(Float(quote_items[i].hours), 1)
                    /\ rows[i].adj_hours = Fmt(adjusted, 1)
                    /\ rows[i].cost = Fmt(FMul(adjusted, Float(widgets.labor_rate)), 2)

C6_Witness ==
    /\ shown.review.on
    /\ Len(quote_items) = 2
    /\ quote_items[1].hours # quote_items[2].hours
    /\ widgets.sel.condition = 2
    /\ widgets.labor_rate = <<9550, 2>>

\* ---------------------------------------------------------------------------
\* The empty quote
\* ---------------------------------------------------------------------------
ZeroTotals(totals) ==
    /\ totals.base_hours = Zero
    /\ totals.adjusted_hours = Zero
    /\ totals.total_cost = Zero

\* C4 as stated: whenever the quote has no items, the tool's pricing produces
\* base hours 0, adjusted hours 0 and total cost 0.
C4_Stated ==
    quote_items = <<>> =>
        /\ shown.review.on
        /\ ZeroTotals(ReviewTotals(shown.review))

\* C4: whenever the quote has no items, neither the Quick Summary nor the
\* Review tab computes or shows any total (the Review tab shows a warning
\* instead); the totals formulas applied to the empty item list give base
\* hours 0, adjusted hours 0 and total cost 0 for the session's factors and
\* every labor rate.
C4_EmptyQuote ==
    quote_items = <<>> =>
        /\ ~ shown.review.on
        /\ ~ shown.quick.on
        /\ \A rate \in LaborRates \cup {DEFAULT_LABOR_RATE} :
               ZeroTotals(ReviewTotals(View(quote_items, difficulty_factors, rate)))

C4_Witness ==
    /\ quote_items = <<>>
    /\ widgets.sel.age = 4
    /\ widgets.sel.condition = 2
    /\ widgets.sel.manufacturer = 2

\* ---------------------------------------------------------------------------
\* The summaries of one render
\* ---------------------------------------------------------------------------
\* C5: in every completed render each summary shown is computed from the
\* current items and the six currently selected factor values, and the Quick
\* Summary's total multiplier equals the Review tab's.
C5_SummariesCurrent ==
    /\ shown.combined.items = quote_items
    /\ shown.combined.factors = AssignFactors(widgets)
    /\ shown.review.on =>
          /\ shown.review.items = quote_items
          /\ shown.review.factors = AssignFactors(widgets)
    /\ shown.quick.on =>
          /\ shown.quick.items = quote_items
          /\ shown.quick.factors = AssignFactors(widgets)
          /\ QuickSummary(shown.quick).total_multiplier
                = ReviewTotals(shown.review).total_multiplier

\* ---------------------------------------------------------------------------
\* Sidebar search
\* ---------------------------------------------------------------------------
\* query occurs in text, letter case aside
OccursIn(query, text) ==
    \E i \in 0..(Len(text) - Len(query)) :
        \A j \in 1..Len(query) : LowerChar(text[i + j]) = LowerChar(query[j])

\* the operations of the table's entries, in table order, each with its model
RECURSIVE TableOps(_)
TableOps(entries) ==
    IF entries = <<>> THEN <<>>
    ELSE Tuple([j \in 1..Len(entries[1].codes) |->
                  [model |-> entries[1].model_key,
                   code |-> entries[1].codes[j].code,
                   description |-> entries[1].codes[j].description,
                   hours |-> entries[1].codes[j].hours]])
         \o TableOps(Tail(entries))

\* the model key the sidebar has selected (pro: <<>> for "All Models")
SelectedKey ==
    IF variant = "pro"
    THEN IF widgets.selected_model = AllModels THEN <<>>
         ELSE database[widgets.selected_model].model_key
    ELSE model_metadata[widgets.selected_model].model_key

\* the operations in the sidebar's scope, in table order
InScope ==
    SelectSeq(TableOps(SrtJson), LAMBDA op : SelectedKey = <<>> \/ op.model = SelectedKey)

SameOperations(results, expected) ==
    /\ Len(results) = Len(expected)
    /\ \A i \in 1..Len(expected) :
          /\ results[i].code = expected[i].code
          /\ results[i].description = expected[i].description
          /\ results[i].hours = expected[i].hours
          /\ variant = "pro" => results[i].model = expected[i].model

\* C8: for a non-empty query the sidebar search of either variant returns
\* exactly the operations in scope whose code or description contains the
\* query, letter case aside, in table order: only the selected model's, or
\* for "All Models" those of all models.
C8_SidebarSearch ==
    (SearchRendered /\ widgets.search_query # <<>>) =>
        SameOperations(shown.results,
            SelectSeq(InScope, LAMBDA op : \/ OccursIn(widgets.search_query, op.code)
                                          \/ OccursIn(widgets.search_query, op.description)))

C8_Witness ==
    /\ variant = "pro"
    /\ widgets.selected_model = AllModels
    /\ widgets.search_query = <<"O", "I", "L">>
    /\ Len(shown.results) = 2
    /\ shown.results[1].model # shown.results[2].model

\* C10: with an empty query the pro sidebar lists no operation and no step
\* adds one to the quote; with an empty search term the fixed sidebar lists
\* exactly the operations of the selected model, in table order.
C10_EmptyQuery ==
    /\ [](widgets.search_query = <<>> =>
            IF variant = "pro" THEN shown.results = <<>>
            ELSE widgets.manufacturer = CNH => SameOperations(shown.results, InScope))
    /\ [][(variant = "pro" /\ widgets.search_query = <<>>)
             => Len(quote_items') <= Len(quote_items)]_vars

C10_Witness ==
    /\ variant = "pro"
    /\ widgets.search_query = <<>>
    /\ widgets.selected_model # AllModels
    /\ quote_items # <<>>

\* ---------------------------------------------------------------------------
\* The multiplier
\* ---------------------------------------------------------------------------
\* 1 + 2^-49
OnePlusEps == [e |-> -52, m |-> <<8, 0, 0, 1024>>]

\* a and b differ by less than 2^-49 of their size (a few units in the last place)
Near(a, b) == FLe(a, FMul(b, OnePlusEps)) /\ FLe(b, FMul(a, OnePlusEps))

\* n / 10^d with the trailing zeros of n cancelled
RECURSIVE Cancelled(_, _)
Cancelled(n, d) == IF d > 0 /\ n % 10 = 0 THEN Cancelled(n \div 10, d - 1) ELSE <<n, d>>

\* the product of the six decimals, rounded once
ExactProduct(factors) ==
    Float(Cancelled(factors.age[1] * factors.condition[1] * factors.location[1]
                      * factors.manufacturer[1] * factors.urgency[1] * factors.complexity[1],
                    factors.age[2] + factors.condition[2] + factors.location[2]
                      + factors.manufacturer[2] + factors.urgency[2] + factors.complexity[2]))

AllOnes(factors) == \A f \in FactorSet : factors[f] = <<10, 1>>

TableValuesAtLeastOne ==
    \A f \in FactorSet : \A i \in 1..Len(DIFFICULTY_FACTORS[f]) :
        FLe(Dec(10, 1), Float(DIFFICULTY_FACTORS[f][i].value))

\* C7: difficulty_factors always has exactly the six keys, each with a value
\* of its own table (1.0 while nothing is selected); every table value is at
\* least 1.0; the composed multiplier lies between 1.0 and 17.64, and the
\* adjusted hours are at least the base hours.
C7_FactorsInRange ==
    LET composed == TotalMultiplier(difficulty_factors)
        base_hours == SumHours(quote_items)
    IN /\ DOMAIN difficulty_factors = FactorSet
       /\ \A f \in FactorSet :
             /\ \E i \in 1..Len(DIFFICULTY_FACTORS[f]) :
                   DIFFICULTY_FACTORS[f][i].value = difficulty_factors[f]
             /\ widgets.sel[f] = 1 => difficulty_factors[f] = <<10, 1>>
       /\ TableValuesAtLeastOne
       /\ FLe(Dec(10, 1), composed)
       /\ FLe(composed, Dec(1764, 2))
       /\ FLe(base_hours, FMul(base_hours, composed))
       /\ shown.review.on =>
             FLe(ReviewTotals(shown.review).base_hours,
                 ReviewTotals(shown.review).adjusted_hours)

C7_Witness ==
    /\ quote_items # <<>>
    /\ \A f \in FactorSet : widgets.sel[f] = LastOption(f)
    /\ TotalMultiplier(difficulty_factors) = Dec(1764, 2)

\* ---------------------------------------------------------------------------
\* search_srt_codes
\* ---------------------------------------------------------------------------
NoMetacharacter(query) == \A i \in 1..Len(query) : query[i] # "."

\* C9 as stated: search_srt_codes returns exactly the rows whose code or
\* description contains the query, letter case aside, in row order.
C9_Stated ==
    call.returned =>
        call.result = SelectSeq(call.df, LAMBDA row : \/ OccursIn(call.query, row.code)
                                                      \/ OccursIn(call.query, row.description))

\* C9: search_srt_codes searches the descriptions only: for a query without
\* regular-expression metacharacters it returns exactly the rows whose
\* description contains the query, letter case aside, in row order, and for
\* any query a row is returned only for its description, never for its code.
C9_DescriptionOnly ==
    call.returned =>
        /\ NoMetacharacter(call.query) =>
              call.result = SelectSeq(call.df,
                                LAMBDA row : OccursIn(call.query, row.description))
        /\ \E keep \in SUBSET (1..Len(call.df)) : call.result = Rows(call.df, keep)
        /\ \A i \in 1..Len(call.result) :
              \A j \in 1..Len(call.query) :
                  call.query[j] # "." => OccursIn(<<call.query[j]>>, call.result[i].description)

C9_Witness ==
    /\ call.returned
    /\ call.query = <<"O", "I", "L">>
    /\ Len(call.df) = 5
    /\ Len(call.result) = 2

\* ---------------------------------------------------------------------------
\* The loader
\* ---------------------------------------------------------------------------
\* a call of load_srt_database that has returned
Loaded == call.fn = "load_srt_database" /\ call.returned

\* the JSON file is there and every hours value in it converts
WellFormedJson ==
    /\ call.files.json.exists
    /\ \A k \in 1..Len(call.files.json.data) :
          \A j \in 1..Len(call.files.json.data[k].codes) :
             Convertible(call.files.json.data[k].codes[j].hours)

RECURSIVE SumOfCounts(_)
SumOfCounts(srt_data) ==
    IF srt_data = <<>> THEN 0 ELSE Len(srt_data[1].codes) + SumOfCounts(Tail(srt_data))

TaggedWith(df, model_key) == SelectSeq(df, LAMBDA row : row.model_key = model_key)

\* C11: from a well-formed mapping the JSON path returns a flat table with as
\* many rows as the models have operations together, the rows of a model
\* tagged with its key and carrying its operations, and an index with one entry
\* per model key whose num_codes is the number of rows tagged with that key,
\* 0 for a model without operations.
C11_FlatTableAndIndex ==
    (Loaded /\ WellFormedJson) =>
        LET srt_data == call.files.json.data
            df == call.result.df
            model_lookup == call.result.model_lookup
        IN /\ call.result.ok
           /\ Len(df) = SumOfCounts(srt_data)
           /\ \A r \in 1..Len(df) : \E k \in 1..Len(srt_data) : df[r].model_key = srt_data[k].model_key
           /\ \A k \in 1..Len(srt_data) :
                 LET mine == TaggedWith(df, srt_data[k].model_key)
                 IN /\ Len(mine) = Len(srt_data[k].codes)
                    /\ \A j \in 1..Len(mine) :
                          /\ mine[j].code = srt_data[k].codes[j].code
                          /\ mine[j].description = srt_data[k].codes[j].description
           /\ Len(model_lookup) = Len(srt_data)
           /\ \A k \in 1..Len(srt_data) :
                 /\ model_lookup[k].model_key = srt_data[k].model_key
                 /\ model_lookup[k].num_codes = Len(TaggedWith(df, srt_data[k].model_key))

\* a mapping of two models, one without operations and one with two
C11_Witness ==
    /\ Loaded
    /\ WellFormedJson
    /\ Len(call.files.json.data) = 2
    /\ call.files.json.data[1].codes = <<>>
    /\ Len(call.files.json.data[2].codes) = 2
    /\ call.result.ok
    /\ Len(call.result.df) = 2
    /\ call.result.model_lookup[1].num_codes = 0
    /\ call.result.model_lookup[2].num_codes = 2

\* the position of the first "_" of key
FirstUnderscore(key) ==
    CHOOSE i \in 1..Len(key) : key[i] = "_" /\ \A j \in 1..(i - 1) : key[j] # "_"

\* the type and the name the key spells
KeyType(key) ==
    IF \E i \in 1..Len(key) : key[i] = "_"
    THEN Title(SubSeq(key, 1, FirstUnderscore(key) - 1))
    ELSE Title(key)

KeyName(key) ==
    IF \E i \in 1..Len(key) : key[i] = "_"
    THEN SubSeq(key, FirstUnderscore(key) + 1, Len(key))
    ELSE key

\* C12: on the JSON path the index entry of a model has as equipment_type the
\* title-cased text of its key before the first "_", as model_name the rest of
\* the key after that "_" (the whole key when it has no "_"), and as
\* display_name the two joined by a space; "excavator_580N" gives "Excavator",
\* "580N" and "Excavator 580N"; every row of the model carries the entry's
\* equipment_type and model_name.
C12_KeyParsing ==
    (Loaded /\ WellFormedJson) =>
        /\ call.result.ok
        /\ \A k \in 1..Len(call.result.model_lookup) :
              LET entry == call.result.model_lookup[k]
                  key == call.files.json.data[k].model_key
              IN /\ entry.model_key = key
                 /\ entry.equipment_type = KeyType(key)
                 /\ entry.model_name = KeyName(key)
                 /\ entry.display_name = KeyType(key) \o <<" ">> \o KeyName(key)
                 /\ key = <<"e", "x", "c", "a", "v", "a", "t", "o", "r", "_", "5", "8", "0", "N">> =>
                       /\ entry.equipment_type = <<"E", "x", "c", "a", "v", "a", "t", "o", "r">>
                       /\ entry.model_name = <<"5", "8", "0", "N">>
                       /\ entry.display_name =
                             <<"E", "x", "c", "a", "v", "a", "t", "o", "r", " ", "5", "8", "0", "N">>
                 /\ \A r \in 1..Len(call.result.df) :
                       call.result.df[r].model_key = key =>
                          /\ call.result.df[r].equipment_type = entry.equipment_type
                          /\ call.result.df[r].model_name = entry.model_name

\* a key of three tokens next to a key of one, both with rows
C12_Witness ==
    /\ Loaded
    /\ WellFormedJson
    /\ call.result.ok
    /\ Len(call.result.model_lookup) = 2
    /\ call.result.model_lookup[1].equipment_type = <<"S", "k", "i", "d">>
    /\ call.result.model_lookup[1].model_name = <<"s", "t", "e", "e", "r", "_", "S", "R", "1", "7", "5">>
    /\ call.result.model_lookup[2].display_name = <<"L", "o", "a", "d", "e", "r", " ", "l", "o", "a", "d", "e", "r">>
    /\ Len(call.result.df) = 3
    /\ call.result.df[1].model_name = <<"s", "t", "e", "e", "r", "_", "S", "R", "1", "7", "5">>

\* the rows of df with the key of row r, by position
SameKeyRows(df, r) == {q \in 1..Len(df) : df[q].model_key = df[r].model_key}

\* lookup groups df on model_key: one entry per key, with the type and name of
\* the key's first row and the number of its rows
GroupedOnKey(lookup, df) ==
    /\ \A i, j \in 1..Len(lookup) : lookup[i].model_key = lookup[j].model_key => i = j
    /\ \A k \in 1..Len(lookup) : \E r \in 1..Len(df) : df[r].model_key = lookup[k].model_key
    /\ \A r \in 1..Len(df) :
          \E k \in 1..Len(lookup) :
             /\ lookup[k].model_key = df[r].model_key
             /\ lookup[k].num_codes = Cardinality(SameKeyRows(df, r))
             /\ (\A q \in SameKeyRows(df, r) : r <= q) =>
                   /\ lookup[k].equipment_type = df[r].equipment_type
                   /\ lookup[k].model_name = df[r].model_name

\* C13: when the JSON file exists the result is the one of the JSON path,
\* whatever pickles exist; when it does not and the pickled table exists, the
\* pickled table is returned with the pickled lookup if there is one and
\* otherwise with a lookup rebuilt by grouping the rows on model_key (type and
\* name of the first row, row count as num_codes); the load raises
\* FileNotFoundError, with the message telling to add the JSON file, exactly
\* when neither the JSON file nor the pickled table exists.
C13_SourceSelection ==
    Loaded =>
        LET files == call.files
            result == call.result
        IN /\ files.json.exists => result = JsonPath(files.json.data)
           /\ (~ files.json.exists /\ files.pkl.exists) =>
                 /\ result.ok
                 /\ result.df = files.pkl.data
                 /\ files.lookup.exists => result.model_lookup = files.lookup.data
                 /\ ~ files.lookup.exists => GroupedOnKey(result.model_lookup, files.pkl.data)
           /\ (~ result.ok /\ result.error = "FileNotFoundError")
                 <=> (~ files.json.exists /\ ~ files.pkl.exists)
           /\ (~ files.json.exists /\ ~ files.pkl.exists) => result.message = NotFoundMessage

\* no JSON file, no pickled lookup: the lookup is rebuilt from a table whose
\* rows of one model are apart
C13_Witness ==
    /\ Loaded
    /\ ~ call.files.json.exists
    /\ call.files.pkl.exists
    /\ ~ call.files.lookup.exists
    /\ call.files.pkl.data = MixedTable
    /\ call.result.ok
    /\ Len(call.result.model_lookup) = 2
    /\ call.result.model_lookup[1].num_codes = 2
    /\ call.result.model_lookup[1].equipment_type = <<"L", "o", "a", "d", "e", "r">>

\* C14: on the JSON path the hours of every returned row is a number, the one
\* its value in the file converts to; if the hours of any record does not
\* convert, the load raises instead and returns neither table nor index; the
\* fixed tool then stops at the error, with no session state created.
C14_HoursCoerced ==
    (Loaded /\ call.files.json.exists) =>
        /\ WellFormedJson =>
              /\ call.result.ok
              /\ \A r \in 1..Len(call.result.df) :
                    /\ call.result.df[r].hours[2] >= 0
                    /\ call.result.df[r].code = PumpAsText.code =>
                          call.result.df[r].hours = <<25, 1>>
                    /\ call.result.df[r].code = OilChange.code =>
                          call.result.df[r].hours = OilChange.hours
        /\ ~ WellFormedJson =>
              /\ ~ call.result.ok
              /\ call.result.error \in {"ValueError", "TypeError"}
              /\ call.result.df = <<>>
              /\ call.result.model_lookup = <<>>
              /\ variant \in {"library", "stopped"}
              /\ database = <<>>
              /\ quote_items = <<>>
        /\ variant = "stopped" => ~ call.result.ok \/ call.result.df = <<>>

\* the second record of the first model has hours "n/a": the tool has stopped
C14_Witness ==
    /\ Loaded
    /\ call.files.json.exists
    /\ Len(call.files.json.data) = 2
    /\ call.files.json.data[1].codes = <<OilChange, NotANumber>>
    /\ call.files.json.data[2].codes = <<OilChange, PumpAsText>>
    /\ call.result.error = "ValueError"
    /\ variant = "stopped"

\* ---------------------------------------------------------------------------
\* The quote's items
\* ---------------------------------------------------------------------------
\* items_after is items_before with one item more, at the end
OneAppended(items_before, items_after) ==
    /\ Len(items_after) = Len(items_before) + 1
    /\ \A j \in 1..Len(items_before) : items_after[j] = items_before[j]

\* C15: an Add click that is not rejected leaves one more item in the quote,
\* at the end, with the code, description and hours of the operation shown
\* beside the button and a model label; the items already there keep their
\* positions and fields; in pro no Add click is rejected.
C15_AddAppendsOne ==
    [][\A i \in 1..Len(shown.results) :
          ClickAdd(i) =>
             /\ quote_items' # quote_items =>
                   /\ OneAppended(quote_items, quote_items')
                   /\ quote_items'[Len(quote_items')].code = shown.results[i].code
                   /\ quote_items'[Len(quote_items')].description = shown.results[i].description
                   /\ quote_items'[Len(quote_items')].hours = shown.results[i].hours
                   /\ "model" \in DOMAIN quote_items'[Len(quote_items')]
             /\ variant = "pro" => OneAppended(quote_items, quote_items')]_vars

\* pro: the same operation added twice is two items
C15_Witness ==
    /\ variant = "pro"
    /\ Len(quote_items) = 2
    /\ quote_items[1] = quote_items[2]

\* C16: in the fixed tool an Add click on an operation whose code is the code
\* of an item of the quote, of whatever model and however entered, leaves the
\* items as they are; any other Add click appends the operation.
C16_DuplicateRejected ==
    [][\A i \in 1..Len(shown.results) :
          (variant = "fixed" /\ ClickAdd(i)) =>
             IF \E j \in 1..Len(quote_items) : quote_items[j].code = shown.results[i].code
             THEN quote_items' = quote_items
             ELSE /\ OneAppended(quote_items, quote_items')
                  /\ quote_items'[Len(quote_items')].code = shown.results[i].code]_vars

\* an operation is on offer whose code is in the quote under another label
\* (another model, or a manual entry), with room left in the quote
C16_Witness ==
    /\ variant = "fixed"
    /\ InSession
    /\ Len(quote_items) < MaxItems
    /\ \E i \in 1..Min(ShowLimit(variant), Len(shown.results)) :
          \E j \in 1..Len(quote_items) :
             /\ quote_items[j].code = shown.results[i].code
             /\ quote_items[j].model # model_metadata[widgets.selected_model].display_name

Popped == call.fn = "pop" /\ call.returned

C19_ClearKeepsFactors ==
    [][ClickClear =>
          /\ quote_items' = <<>>
          /\ \A f \in FactorSet : difficulty_factors'[f] = difficulty_factors[f]
          /\ shown'.combined.factors = difficulty_factors]_vars

\* an empty quote beside factors that are not the initial ones
C19_Witness ==
    /\ InSession
    /\ quote_items = <<>>
    /\ difficulty_factors # InitialFactors
    /\ shown.combined.factors = difficulty_factors
    /\ shown.review = Off

\* a number held as <<n, d>> is not below zero
NotNegative(lit) == lit[1] >= 0

\* C20: with no hours below zero in the database, at every moment of a session
\* the hours of every item of the quote and the labor rate are not below
\* zero, whatever is typed into the Labor Hours and Labor Rate inputs, so
\* that the totals of the Review tab, computed from these and from factors
\* of at least 1, are not below zero either.
C20_NothingNegative ==
    InSession =>
        /\ \A i \in 1..Len(quote_items) : NotNegative(quote_items[i].hours)
        /\ NotNegative(widgets.labor_rate)
        /\ shown.review.on =>
              /\ \A i \in 1..Len(shown.review.items) : NotNegative(shown.review.items[i].hours)
              /\ NotNegative(shown.review.labor_rate)
              /\ \A f \in FactorSet : ~ Below(shown.review.factors[f], <<1, 0>>)
              /\ LET totals == ReviewTotals(shown.review)
                 IN /\ FLe(Zero, totals.base_hours)
                    /\ FLe(Zero, totals.adjusted_hours)
                    /\ FLe(Zero, totals.total_cost)

\* hours and a labor rate below zero were typed: the quote holds a manual
\* item of 0.0 hours and is priced at a rate of 0.0
C20_Witness ==
    /\ InSession
    /\ variant = "fixed"
    /\ Len(quote_items) = 2
    /\ quote_items[2].hours = MinValue
    /\ widgets.labor_rate = MinValue
    /\ shown.review.on
    /\ ReviewTotals(shown.review).total_cost = Zero

\* ---------------------------------------------------------------------------
\* The exported table
\* ---------------------------------------------------------------------------
\* the exported rows read back: the three texts as they are, and the number
\* the Base Hours text spells (one decimal place)
Reparsed(rows) ==
    Tuple([i \in 1..Len(rows) |->
        [code |-> rows[i].code,
         description |-> rows[i].description,
         model |-> rows[i].model,
         hours |-> Dec(rows[i].base_hours, 1)]])

\* C21: the rows of the exported table, read back, give for each item of the
\* quote, in order, the item's code, description, model and hours.
C21_RoundTrip ==
    shown.review.on =>
        LET back == Reparsed(QuoteData(shown.review))
        IN /\ Len(back) = Len(quote_items)
           /\ \A i \in 1..Len(quote_items) :
                 /\ back[i].code = quote_items[i].code
                 /\ back[i].description = quote_items[i].description
                 /\ back[i].model = quote_items[i].model
                 /\ back[i].hours = Float(quote_items[i].hours)

\* ---------------------------------------------------------------------------
\* The database
\* ---------------------------------------------------------------------------
\* C22: throughout a session the database is what load_database returned:
\* no search, add, remove, clear, factor change or export changes a model's
\* list of operations or an operation's code, description or hours.
C22_DatabaseReadOnly ==
    InSession =>
        /\ database = LoadDatabase(variant)
        /\ \A k \in 1..Len(database) :
              /\ database[k].model_key = SrtJson[k].model_key
              /\ Len(database[k].ops) = Len(SrtJson[k].codes)
              /\ \A j \in 1..Len(database[k].ops) :
                    /\ database[k].ops[j].code = SrtJson[k].codes[j].code
                    /\ database[k].ops[j].description = SrtJson[k].codes[j].description
                    /\ database[k].ops[j].hours = SrtJson[k].codes[j].hours

\* after a search, adds and a factor change, with the quote priced
C22_Witness ==
    /\ InSession
    /\ Len(quote_items) = 2
    /\ widgets.search_query # <<>>
    /\ difficulty_factors # InitialFactors
    /\ shown.review.on
    /\ Len(database) = Len(SrtJson)

\* C23: in the fixed tool no two items of the quote have the same code.
C23_UniqueCodes ==
    (InSession /\ variant = "fixed") =>
        \A i, j \in 1..Len(quote_items) :
            quote_items[i].code = quote_items[j].code => i = j

\* C24: in the fixed tool, started on a well-formed mapping, every model key
\* of the loader's index is a key of the regrouped database, and the list of
\* operations found under it has num_codes operations.
C24_IndexWithinDatabase ==
    (Loaded /\ WellFormedJson /\ variant = "fixed") =>
        \A k \in 1..Len(call.result.model_lookup) :
            /\ \E d \in 1..Len(database) :
                  database[d].model_key = call.result.model_lookup[k].model_key
            /\ \A d \in 1..Len(database) :
                  database[d].model_key = call.result.model_lookup[k].model_key =>
                     Len(database[d].ops) = call.result.model_lookup[k].num_codes

\* the sum of the numbers a column of the breakdown shows (in units of its
\* last decimal place)
RECURSIVE SumShown(_, _)
SumShown(rows, column) ==
    IF rows = <<>> THEN 0 ELSE rows[1][column] + SumShown(Tail(rows), column)

\* C25: the Cost values of the breakdown add up to the Total Cost shown, and
\* its Adj. Hours values add up to the Final Hours shown.
C25_LinesAddUp ==
    shown.review.on =>
        LET rows == QuoteData(shown.review)
            totals == ReviewTotals(shown.review)
        IN /\ SumShown(rows, "cost") = Fmt(totals.total_cost, 2)
           /\ SumShown(rows, "adj_hours") = Fmt(totals.adjusted_hours, 1)

\* ---------------------------------------------------------------------------
\* The manufacturer factor
\* ---------------------------------------------------------------------------
\* C26: as long as the user leaves the Equipment Manufacturer selector of the
\* Difficulty Factors tab alone, it shows the manufacturer chosen in the
\* sidebar, and the manufacturer factor is the multiplier the table lists for
\* that manufacturer.
C26_ManufacturerFollowsSidebar ==
    InSession =>
        /\ ManufacturerKeys[widgets.sel.manufacturer] = MANUFACTURERS[widgets.manufacturer]
        /\ \A i \in 1..Len(DIFFICULTY_FACTORS.manufacturer) :
              DIFFICULTY_FACTORS.manufacturer[i].label = MANUFACTURERS[widgets.manufacturer] =>
                 difficulty_factors.manufacturer = DIFFICULTY_FACTORS.manufacturer[i].value

====
